---- MODULE Spec2Model ----
(***************************************************************************)
(* A model of src/models/ggmlex/cpp/llamalex.cpp: the LegalTokenizer, the  *)
(* LlamaLex engine (encode, generate) and the extern "C" boundary          *)
(* (llamalex_create / destroy / encode / generate / free_string).          *)
(*                                                                         *)
(* Strings are sequences of character codes (ASCII).  The model has three  *)
(* specifications over the same variables:                                 *)
(*   SpecTok  the tokenizer_ of an engine applied to texts                 *)
(*   SpecGen  LlamaLex::generate, one loop iteration per step              *)
(*   Spec     the C boundary with its heap of new[] allocations            *)
(***************************************************************************)
EXTENDS Integers, Sequences, FiniteSets

VARIABLES
    engine,      \* the LlamaLex object: its config_ (tokenizer_ holds config_.vocab_size), or NoEngine
    rand_state,  \* the hidden state of the C library's rand()
    text,        \* the argument of the tokenizer_.tokenize call, or NoText
    tokens,      \* the local vector `tokens` that call filled (generate's loop appends to it), or NoTokens
    detok,       \* the string returned by the last detokenize call, or NoString
    gen,         \* the frame of LlamaLex::generate: pc, max_length, i, next_token, and two counters
    lookups,     \* the get_token_embedding calls of the last encode: <<token_id, emb>> in call order
    out_size,    \* what the last llamalex_encode wrote to *out_size
    ret,         \* the buffer returned by the last boundary call: [op, ptr, len], or NoRet
    heap         \* address -> the new[] form that allocated the live block there, or "free"

vars == <<engine, rand_state, text, tokens, detok, gen, lookups, out_size, ret, heap>>

(***************************************************************************)
(* Bounds of the model.                                                    *)
(***************************************************************************)
MaxTextLen == 4     \* SpecTok: texts of up to this many characters
MaxVocab == 4       \* vocab_size ranges over 1..MaxVocab
MaxDim == 2         \* embedding_dim ranges over 0..MaxDim
MaxWords == 2       \* SpecGen, Spec: texts of up to this many words
MaxLength == 3      \* generate's max_length ranges over 0..MaxLength
MaxBuffers == 2     \* Spec: addresses the allocator can hand out

(***************************************************************************)
(* Program constants.                                                      *)
(***************************************************************************)
BOS == 1
EOS == 2
DefaultEmbeddingDim == 768
DefaultNumLayers == 12
DefaultNumHeads == 12
DefaultFfDim == 3072
DefaultMaxSeqLength == 2048

\* No object, no call yet, no returned buffer.  A text or string never holds -1.
NoEngine == [null |-> TRUE]
NoText == <<-1>>
NoString == <<-1>>
NoTokens == <<-1>>
NoRet == [op |-> "none", ptr |-> 0, len |-> 0]

\* c == ' ' || c == '\n' || c == '\t'
IsSeparator(c) == c = 32 \/ c = 10 \/ c = 9

\* The characters texts are drawn from: 'a', 'b', ' ', '\n', '\t'.
Alphabet == {97, 98, 32, 10, 9}

Texts == UNION {[1..n -> Alphabet] : n \in 0..MaxTextLen}

Last(s) == s[Len(s)]
Front(s) == SubSeq(s, 1, Len(s) - 1)

(***************************************************************************)
(* LegalTokenizer                                                          *)
(***************************************************************************)

\* std::hash<std::string>: implementation-defined, deterministic within a run,
\* a size_t.  A polynomial hash of the bytes at a width of 16 bits stands for it.
HashModulus == 65536

RECURSIVE Hash(_)
Hash(word) ==
    IF word = <<>> THEN 0
    ELSE (Hash(Front(word)) * 31 + Last(word)) % HashModulus

\* return std::hash<std::string>{}(word) % vocab_size_;   (size_t narrowed to int:
\* the value is below vocab_size_, which the model keeps far below 2^31)
get_token_id(vocab_size, word) == Hash(word) % vocab_size

\* std::to_string of a non-negative int: its decimal digits, '0' = 48.
RECURSIVE to_string(_)
to_string(n) ==
    IF n < 10 THEN <<48 + n>>
    ELSE Append(to_string(n \div 10), 48 + (n % 10))

\* "<token_" + std::to_string(token_id) + ">"
get_token_str(token_id) ==
    <<60, 116, 111, 107, 101, 110, 95>> \o to_string(token_id) \o <<62>>

\* The for loop of tokenize over the characters from position k on:
\* <<tokens, word>> when the loop ends.
RECURSIVE tokenize_loop(_, _, _, _, _)
tokenize_loop(vocab_size, txt, k, toks, word) ==
    IF k > Len(txt) THEN <<toks, word>>
    ELSE IF IsSeparator(txt[k])
         THEN IF word # <<>>
              THEN tokenize_loop(vocab_size, txt, k + 1,
                                 Append(toks, get_token_id(vocab_size, word)), <<>>)
              ELSE tokenize_loop(vocab_size, txt, k + 1, toks, word)
         ELSE tokenize_loop(vocab_size, txt, k + 1, toks, Append(word, txt[k]))

tokenize_dropsTrailingEOS(vocab_size, txt) ==
    LET r == tokenize_loop(vocab_size, txt, 1, <<BOS>>, <<>>)
    IN  IF r[2] # <<>>
        THEN Append(r[1], get_token_id(vocab_size, r[2]))
        ELSE Append(r[1], EOS)

tokenize(vocab_size, txt) ==
    LET r == tokenize_loop(vocab_size, txt, 1, <<BOS>>, <<>>)
        flushed == IF r[2] # <<>>
                   THEN Append(r[1], get_token_id(vocab_size, r[2]))
                   ELSE r[1]
    IN  Append(flushed, EOS)

\* The for loop of detokenize from index k on, `str` being the local `text`.
RECURSIVE detokenize_loop(_, _, _)
detokenize_loop(toks, k, str) ==
    IF k > Len(toks) THEN str
    ELSE IF toks[k] = 1 \/ toks[k] = 2
         THEN detokenize_loop(toks, k + 1, str)
         ELSE detokenize_loop(toks, k + 1,
                  (IF str # <<>> THEN Append(str, 32) ELSE str) \o get_token_str(toks[k]))

detokenize(toks) == detokenize_loop(toks, 1, <<>>)

(***************************************************************************)
(* LlamaLexConfig                                                          *)
(***************************************************************************)
LlamaLexConfig(vocab_size, embedding_dim, num_layers, num_heads, max_seq_length) ==
    [vocab_size |-> vocab_size, embedding_dim |-> embedding_dim,
     num_layers |-> num_layers, num_heads |-> num_heads,
     ff_dim |-> DefaultFfDim, max_seq_length |-> max_seq_length]

\* vocab_size 0 is left out: get_token_id and generate then divide by zero.
VocabSizes == 1..MaxVocab
EmbeddingDims == 0..MaxDim

NoGen == [pc |-> "idle", max_length |-> 0, i |-> 0, next_token |-> 0,
          prompt_len |-> 0, steps |-> 0]

(***************************************************************************)
(* SpecTok: an engine's tokenizer_ applied to a text.  A C++ caller fills   *)
(* the LlamaLexConfig, so vocab_size and max_seq_length are drawn, and so  *)
(* is the text; a run tokenizes it and detokenizes the result.             *)
(***************************************************************************)
SeqLengths == {2, 3, DefaultMaxSeqLength}

InitTok ==
    /\ engine \in {LlamaLexConfig(v, DefaultEmbeddingDim, DefaultNumLayers, DefaultNumHeads, m) :
                       v \in VocabSizes, m \in SeqLengths}
    /\ rand_state = 1
    /\ text \in Texts
    /\ tokens = NoTokens
    /\ detok = NoString
    /\ gen = NoGen
    /\ lookups = <<>>
    /\ out_size = 0
    /\ ret = NoRet
    /\ heap = [a \in 1..MaxBuffers |-> "free"]

\* auto tokens = tokenizer_.tokenize(text);
Tokenize ==
    /\ tokens = NoTokens
    /\ tokens' = tokenize(engine.vocab_size, text)
    /\ UNCHANGED <<engine, rand_state, text, detok, gen, lookups, out_size, ret, heap>>

\* tokenizer_.detokenize(tokens) on the tokenizer's output
Detokenize ==
    /\ tokens # NoTokens
    /\ detok = NoString
    /\ detok' = detokenize(tokens)
    /\ UNCHANGED <<engine, rand_state, text, tokens, gen, lookups, out_size, ret, heap>>

NextTok == Tokenize \/ Detokenize

SpecTok == InitTok /\ [][NextTok]_vars

(***************************************************************************)
(* The C library's rand().  The program never calls srand, so the sequence *)
(* is the one of seed 1.  A linear congruential generator of 3 bits stands *)
(* for it: RAND_MAX is 7 and the value returned is the new state.          *)
(***************************************************************************)
rand_step(s) == (s * 5 + 3) % 8
rand_value(s) == s

(***************************************************************************)
(* LlamaLex::generate                                                      *)
(***************************************************************************)

LoopContinues_offByOne(i, max_length) == i <= max_length

\* for (size_t i = 0; i < max_length; ++i)
LoopContinues(i, max_length) == i < max_length

\* int next_token = rand() % config_.vocab_size;
SampleToken(r, vocab_size) == r % vocab_size

LoopBreaks_never(next_token) == FALSE

\* if (next_token == 2) break;
LoopBreaks(next_token) == next_token = 2

\* One pass through the loop head: the test of i < max_length and, when it holds,
\* the loop body and ++i.  st is [gen, tokens, rand_state].
GenIterate(st, vocab_size) ==
    IF LoopContinues(st.gen.i, st.gen.max_length)
    THEN LET s2 == rand_step(st.rand_state)
             next_token == SampleToken(rand_value(s2), vocab_size)
         IN  [tokens |-> Append(st.tokens, next_token),
              rand_state |-> s2,
              gen |-> IF LoopBreaks(next_token)
                      THEN [st.gen EXCEPT !.pc = "STOPPED", !.next_token = next_token,
                                          !.steps = @ + 1]
                      ELSE [st.gen EXCEPT !.i = @ + 1, !.next_token = next_token,
                                          !.steps = @ + 1]]
    ELSE [st EXCEPT !.gen.pc = "STOPPED"]

\* The whole loop, from the loop head to the statement after it.
RECURSIVE GenRun(_, _)
GenRun(st, vocab_size) ==
    IF st.gen.pc = "STOPPED" THEN st ELSE GenRun(GenIterate(st, vocab_size), vocab_size)

\* The frame after `auto tokens = tokenizer_.tokenize(prompt);`
GenFrame(max_length, toks) ==
    [pc |-> "PROMPT_LOADED", max_length |-> max_length, i |-> 0, next_token |-> 0,
     prompt_len |-> Len(toks), steps |-> 0]

\* Texts of up to MaxWords words "b" or "ba", single spaces between them.
RECURSIVE JoinSpace(_)
JoinSpace(ws) ==
    IF ws = <<>> THEN <<>>
    ELSE IF Len(ws) = 1 THEN ws[1]
    ELSE ws[1] \o <<32>> \o JoinSpace(Tail(ws))

WordTexts == {JoinSpace(ws) : ws \in UNION {[1..n -> {<<98>>, <<98, 97>>}] : n \in 0..MaxWords}}

(***************************************************************************)
(* SpecGen: generate on a constructed engine, one loop pass per step.      *)
(***************************************************************************)
InitGen ==
    /\ engine \in {LlamaLexConfig(v, DefaultEmbeddingDim, DefaultNumLayers, DefaultNumHeads,
                                  DefaultMaxSeqLength) : v \in VocabSizes}
    /\ rand_state = 1
    /\ text = NoText
    /\ tokens = NoTokens
    /\ detok = NoString
    /\ gen = NoGen
    /\ lookups = <<>>
    /\ out_size = 0
    /\ ret = NoRet
    /\ heap = [a \in 1..MaxBuffers |-> "free"]

\* generate(prompt, max_length) up to the for statement
GenerateCall(prompt, max_length) ==
    /\ gen.pc = "idle"
    /\ text' = prompt
    /\ tokens' = tokenize(engine.vocab_size, prompt)
    /\ gen' = GenFrame(max_length, tokens')
    /\ detok' = NoString
    /\ UNCHANGED <<engine, rand_state, lookups, out_size, ret, heap>>

\* size_t i = 0
GenerateEnterLoop ==
    /\ gen.pc = "PROMPT_LOADED"
    /\ gen' = [gen EXCEPT !.pc = "STEPPING", !.i = 0]
    /\ UNCHANGED <<engine, rand_state, text, tokens, detok, lookups, out_size, ret, heap>>

GenerateIterate ==
    /\ gen.pc = "STEPPING"
    /\ LET st == GenIterate([gen |-> gen, tokens |-> tokens, rand_state |-> rand_state],
                            engine.vocab_size)
       IN  /\ gen' = st.gen
           /\ tokens' = st.tokens
           /\ rand_state' = st.rand_state
    /\ UNCHANGED <<engine, text, detok, lookups, out_size, ret, heap>>

\* return tokenizer_.detokenize(tokens);
GenerateReturn ==
    /\ gen.pc = "STOPPED"
    /\ detok' = detokenize(tokens)
    /\ gen' = NoGen
    /\ UNCHANGED <<engine, rand_state, text, tokens, lookups, out_size, ret, heap>>

GenerateRuns == GenerateEnterLoop \/ GenerateIterate \/ GenerateReturn

NextGen ==
    \/ \E prompt \in WordTexts, max_length \in 0..MaxLength : GenerateCall(prompt, max_length)
    \/ GenerateEnterLoop
    \/ GenerateIterate
    \/ GenerateReturn

\* generate runs to completion on the calling thread: a call that started goes on.
SpecGen == InitGen /\ [][NextGen]_vars /\ WF_vars(GenerateRuns)

(***************************************************************************)
(* LlamaLex::encode                                                        *)
(***************************************************************************)

\* emb[i] = 0.01f * (rand() / (float)RAND_MAX): the element is kept as the value
\* rand() returned, of which the float is a fixed function.
emb_value(r) == r

\* get_token_embedding's for loop from index i on; the token id is not read.
RECURSIVE get_token_embedding_loop(_, _, _, _)
get_token_embedding_loop(i, embedding_dim, s, emb) ==
    IF i >= embedding_dim THEN [emb |-> emb, rand_state |-> s]
    ELSE LET s2 == rand_step(s)
         IN  get_token_embedding_loop(i + 1, embedding_dim, s2,
                                      Append(emb, emb_value(rand_value(s2))))

get_token_embedding(token_id, embedding_dim, s) ==
    get_token_embedding_loop(0, embedding_dim, s, <<>>)

\* encode's for loop over tokens from index k on: the embeddings gathered, the
\* lookups made and rand()'s state.
RECURSIVE encode_loop(_, _, _, _)
encode_loop(toks, k, embedding_dim, acc) ==
    IF k > Len(toks) THEN acc
    ELSE LET token_emb == get_token_embedding(toks[k], embedding_dim, acc.rand_state)
         IN  encode_loop(toks, k + 1, embedding_dim,
                 [embeddings |-> acc.embeddings \o token_emb.emb,
                  lookups |-> Append(acc.lookups, <<toks[k], token_emb.emb>>),
                  rand_state |-> token_emb.rand_state])

encode(config, txt, s) ==
    LET toks == tokenize(config.vocab_size, txt)
        r == encode_loop(toks, 1, config.embedding_dim,
                         [embeddings |-> <<>>, lookups |-> <<>>, rand_state |-> s])
    IN  [tokens |-> toks, embeddings |-> r.embeddings, lookups |-> r.lookups,
         rand_state |-> r.rand_state]

(***************************************************************************)
(* Spec: the extern "C" boundary.  The caller holds one handle at a time,  *)
(* passes only a live handle, and passes llamalex_free_string only a live  *)
(* buffer that new char[] allocated; every call runs to completion.        *)
(***************************************************************************)
Addresses == 1..MaxBuffers

FreeAddresses(h) == {a \in Addresses : h[a] = "free"}

\* The allocator's choice of a block: the lowest free address.
Allocate(h) == CHOOSE a \in FreeAddresses(h) : \A b \in FreeAddresses(h) : a <= b

OutSize_inBytes(embeddings) == Len(embeddings) * 4

\* *out_size = embeddings.size();
OutSize(embeddings) == Len(embeddings)

Init ==
    /\ engine = NoEngine
    /\ rand_state = 1
    /\ text = NoText
    /\ tokens = NoTokens
    /\ detok = NoString
    /\ gen = NoGen
    /\ lookups = <<>>
    /\ out_size = 0
    /\ ret = NoRet
    /\ heap = [a \in Addresses |-> "free"]

\* Every boundary call overwrites the record of the last call (text, tokens,
\* detok, lookups, out_size, ret): a call that does not produce a part clears it.
llamalex_create(vocab_size, embedding_dim, num_layers) ==
    /\ engine = NoEngine
    /\ engine' = LlamaLexConfig(vocab_size, embedding_dim, num_layers,
                                DefaultNumHeads, DefaultMaxSeqLength)
    /\ text' = NoText
    /\ tokens' = NoTokens
    /\ detok' = NoString
    /\ lookups' = <<>>
    /\ out_size' = 0
    /\ ret' = NoRet
    /\ UNCHANGED <<rand_state, gen, heap>>

\* delete static_cast<LlamaLex*>(handle);
llamalex_destroy ==
    /\ engine # NoEngine
    /\ engine' = NoEngine
    /\ text' = NoText
    /\ tokens' = NoTokens
    /\ detok' = NoString
    /\ lookups' = <<>>
    /\ out_size' = 0
    /\ ret' = NoRet
    /\ UNCHANGED <<rand_state, gen, heap>>

llamalex_encode(txt) ==
    /\ engine # NoEngine
    /\ FreeAddresses(heap) # {}
    /\ LET r == encode(engine, txt, rand_state)
           output == Allocate(heap)
       IN  /\ text' = txt
           /\ tokens' = r.tokens
           /\ lookups' = r.lookups
           /\ rand_state' = r.rand_state
           /\ out_size' = OutSize(r.embeddings)
           /\ heap' = [heap EXCEPT ![output] = "float[]"]
           /\ ret' = [op |-> "encode", ptr |-> output, len |-> Len(r.embeddings)]
    /\ detok' = NoString
    /\ UNCHANGED <<engine, gen>>

llamalex_generate(prompt, max_length) ==
    /\ engine # NoEngine
    /\ FreeAddresses(heap) # {}
    /\ LET toks == tokenize(engine.vocab_size, prompt)
           st == GenRun([gen |-> [GenFrame(max_length, toks) EXCEPT !.pc = "STEPPING"],
                         tokens |-> toks, rand_state |-> rand_state],
                        engine.vocab_size)
           generated == detokenize(st.tokens)
           output == Allocate(heap)
       IN  /\ text' = prompt
           /\ tokens' = st.tokens
           /\ rand_state' = st.rand_state
           /\ detok' = generated
           /\ heap' = [heap EXCEPT ![output] = "char[]"]
           /\ ret' = [op |-> "generate", ptr |-> output, len |-> Len(generated) + 1]
    /\ lookups' = <<>>
    /\ out_size' = 0
    /\ UNCHANGED <<engine, gen>>

\* delete[] str;
llamalex_free_string(str) ==
    /\ heap[str] = "char[]"
    /\ heap' = [heap EXCEPT ![str] = "free"]
    /\ text' = NoText
    /\ tokens' = NoTokens
    /\ detok' = NoString
    /\ lookups' = <<>>
    /\ out_size' = 0
    /\ ret' = NoRet
    /\ UNCHANGED <<engine, rand_state, gen>>

\* The texts the boundary is called with: up to MaxWords times the word "ba".
BoundaryTexts == {JoinSpace([k \in 1..n |-> <<98, 97>>]) : n \in 0..MaxWords}

Next ==
    \/ \E v \in VocabSizes, d \in EmbeddingDims : llamalex_create(v, d, 4)
    \/ llamalex_destroy
    \/ \E txt \in BoundaryTexts : llamalex_encode(txt)
    \/ \E prompt \in BoundaryTexts, max_length \in 0..MaxLength :
           llamalex_generate(prompt, max_length)
    \/ \E str \in Addresses : llamalex_free_string(str)

Spec == Init /\ [][Next]_vars

(***************************************************************************)
(* Claims checked under SpecTok                                            *)
(***************************************************************************)

\* C1: whatever the text, the empty one and the ones of whitespace only included,
\* the sequence tokenize returns has BEGIN (1) first and END (2) last.
C1_BeginFirstEndLast ==
    tokens # NoTokens => /\ Len(tokens) >= 2
                     /\ Head(tokens) = 1
                     /\ Last(tokens) = 2

\* A text of whitespace only, not empty, has been tokenized to <<BEGIN, END>>.
C1_Witness ==
    /\ tokens # NoTokens
    /\ Len(text) >= 2
    /\ \A k \in 1..Len(text) : IsSeparator(text[k])
    /\ tokens = <<1, 2>>

\* C6: tokenize never returns a sequence longer than max_seq_length (the code has
\* no SequenceTooLong signal: every call returns).
C6_LengthWithinMaxSeqLength ==
    tokens # NoTokens => Len(tokens) <= engine.max_seq_length

\* The whitespace-separated words of a text, in order.
RECURSIVE WordsOf(_)
WordsOf(txt) ==
    IF txt = <<>> THEN <<>>
    ELSE IF IsSeparator(Head(txt)) THEN WordsOf(Tail(txt))
    ELSE LET stops == {k \in 1..Len(txt) : IsSeparator(txt[k])}
             n == IF stops = {} THEN Len(txt) + 1
                  ELSE CHOOSE k \in stops : \A j \in stops : k <= j
         IN  <<SubSeq(txt, 1, n - 1)>> \o WordsOf(SubSeq(txt, n, Len(txt)))

\* C10: detokenize(tokenize(text)) is one token string form per word of the text,
\* in the words' order, joined by single spaces.
C10_OneFormPerWord ==
    detok # NoString =>
        LET ws == WordsOf(text)
        IN  detok = JoinSpace([k \in 1..Len(ws) |->
                                   get_token_str(get_token_id(engine.vocab_size, ws[k]))])

(***************************************************************************)
(* Claims checked under SpecGen                                            *)
(***************************************************************************)
Appended == SubSeq(tokens, gen.prompt_len + 1, Len(tokens))
Running == gen.pc # "idle"

\* C2: generate stops after at most max_length sampling steps, having appended at
\* most max_length tokens to the tokenized prompt.
C2_GenerateTerminates ==
    /\ [](Running => /\ gen.steps <= gen.max_length
                     /\ Len(Appended) <= gen.max_length)
    /\ [](gen.pc = "PROMPT_LOADED" => <>(gen.pc = "STOPPED"))

\* A run that used up its max_length >= 2 sampling steps without sampling END,
\* with a vocabulary that holds END.
C2_Witness ==
    /\ gen.pc = "STOPPED"
    /\ engine.vocab_size >= 3
    /\ gen.max_length >= 2
    /\ gen.steps = gen.max_length
    /\ \A k \in 1..Len(Appended) : Appended[k] # 2

C8_StateInv ==
    /\ gen.pc = "STEPPING" =>
           /\ Len(Appended) <= gen.max_length
           /\ \A k \in 1..Len(Appended) : Appended[k] # 2
    /\ gen.pc = "STOPPED" =>
           \/ /\ Len(Appended) >= 1
              /\ Last(Appended) = 2
              /\ \A k \in 1..(Len(Appended) - 1) : Appended[k] # 2
           \/ /\ Len(Appended) = gen.max_length
              /\ \A k \in 1..Len(Appended) : Appended[k] # 2

C8_Step ==
    /\ gen.pc = "PROMPT_LOADED" => gen'.pc \in {"PROMPT_LOADED", "STEPPING"}
    /\ gen.pc = "STEPPING" => gen'.pc \in {"STEPPING", "STOPPED"}
    /\ gen.pc = "STOPPED" => /\ gen'.pc \in {"STOPPED", "idle"}
                             /\ tokens' = tokens
    /\ (Running /\ tokens' # tokens) =>
           /\ gen.pc = "STEPPING"
           /\ Len(Appended) < gen.max_length
           /\ \A k \in 1..Len(Appended) : Appended[k] # 2
           /\ \E t \in 0..(engine.vocab_size - 1) :
                  /\ tokens' = Append(tokens, t)
                  /\ gen'.pc = IF t = 2 THEN "STOPPED" ELSE "STEPPING"
    /\ (gen.pc = "STEPPING" /\ gen'.pc = "STOPPED" /\ tokens' = tokens) =>
           Len(Appended) = gen.max_length

\* C8: generate goes PROMPT_LOADED -> STEPPING -> STOPPED; it samples only while
\* fewer than max_length tokens are appended and none of them is END; a sampled END
\* is appended and stops it; nothing is appended after STOPPED, which is reached on
\* END and on exhausting max_length.
C8_GenerateStateMachine == []C8_StateInv /\ [][C8_Step]_vars

\* A run stopped by a sampled END before max_length was used up, after a sample
\* that was not END.
C8_Witness ==
    /\ gen.pc = "STOPPED"
    /\ Len(Appended) = 2
    /\ Last(Appended) = 2
    /\ Len(Appended) < gen.max_length

\* C9: every token of a tokenize result and every token generate appends lies in
\* [0, vocab_size), BEGIN and END included.
C9_TokensInVocabulary ==
    tokens # NoTokens =>
        \A k \in 1..Len(tokens) : tokens[k] >= 0 /\ tokens[k] < engine.vocab_size

(***************************************************************************)
(* Claims checked under Spec                                               *)
(***************************************************************************)

\* C3: within one engine session, two embedding lookups of the same token id
\* return the same vector, inside one encode call and across encode calls.
\* Each step is held against the lookups of the call before it and its own.
C3_LookupsDeterministic ==
    [][engine' = engine =>
          LET log == lookups \o lookups'
          IN  \A i \in 1..Len(log), j \in 1..Len(log) :
                  log[i][1] = log[j][1] => log[i][2] = log[j][2]]_vars

\* C4: llamalex_encode writes to *out_size the number of tokens of tokenize(text)
\* times embedding_dim, and the buffer it returns holds that many floats.
C4_OutSizeIsTokensTimesDim ==
    ret.op = "encode" =>
        /\ engine # NoEngine
        /\ out_size = Len(tokenize(engine.vocab_size, text)) * engine.embedding_dim
        /\ ret.len = out_size
        /\ heap[ret.ptr] = "float[]"

\* An encode of a text of two words by an engine of embedding_dim 2: 4 tokens, 8 floats.
C4_Witness ==
    /\ ret.op = "encode"
    /\ Len(WordsOf(text)) = 2
    /\ engine.embedding_dim = 2
    /\ out_size = 8

\* C5: every buffer the boundary returned and that is still live can be released
\* through a free routine of the boundary that matches its allocation.
C5_EveryBufferReleasable ==
    \A a \in Addresses : heap[a] # "free" => ENABLED llamalex_free_string(a)

\* C7: no engine exists whose embedding_dim is not divisible by its num_heads
\* (its construction would have failed with InvalidConfig).
C7_NoEngineWithInvalidConfig ==
    engine # NoEngine => engine.embedding_dim % engine.num_heads = 0

====
